---- MODULE Spec2Model ----
(***************************************************************************)
(* Model of transform.go: the CSV loader (ReadCSV), the random three-way   *)
(* partition (SplitData), the JSON serialisation (json.MarshalIndent with  *)
(* two-space indentation), the size-bounded chunked writer                 *)
(* (SplitAndWriteJSON) and the orchestration in main.                      *)
(*                                                                         *)
(* Go slices are 0-based; a slice s is modelled by a sequence, s[i] in Go  *)
(* being s[i+1] here, and s[a:b] being SubSeq(s, a+1, b).                  *)
(***************************************************************************)
EXTENDS Integers, Sequences, FiniteSets, TLC

VARIABLES
    pc,            \* position of the program
    csvFile,       \* the input file: [exists, rows], rows[1] being the header
    records,       \* the []EmailRecord SplitData / SplitAndWriteJSON work on
    trainCount,    \* configuration: size of the training subset
    testCount,     \* configuration: size of the testing subset
    maxSizeKB,     \* configuration: maximum chunk size in kilobytes
    randomIndices, \* prng.Perm(totalCount), values 0..totalCount-1
    i,             \* loop index of SplitData's range loop
    trainSet, testSet, learnSet,   \* SplitData's results
    picked,        \* per subset, the indices i whose record was appended, in order
    subsetsMade,   \* SplitData's three result slices are non-nil (lines 156-158 ran)
    err,           \* the error a function returned / main reported
    fs,            \* the file system: file name -> bytes (as lines)
    writeLog,      \* names given to os.WriteFile calls that succeeded, in order
    chunkNum, startIdx, endIdx, chunkData   \* locals of SplitAndWriteJSON

vars == <<pc, csvFile, records, trainCount, testCount, maxSizeKB, randomIndices, i,
          trainSet, testSet, learnSet, picked, subsetsMade, err, fs, writeLog,
          chunkNum, startIdx, endIdx, chunkData>>

(***************************************************************************)
(* Bounds of the model.                                                    *)
(***************************************************************************)
MaxChunkRecords == 5    \* longest input of SplitAndWriteJSON run on its own
MaxSplitRecords == 4    \* longest dataset of SplitData run on its own
MaxSplitCount == 3      \* largest trainCount / testCount of SplitData run on its own
MaxRows == 3            \* most data rows of the input file of main
MaxMainCount == 1       \* largest trainCount / testCount of main
MaxSizeKBBound == 2     \* largest maxSizeKB

(***************************************************************************)
(* Strings.  A string is a sequence of runs [c, n]: n copies of the        *)
(* character c.  Only its encoded length and its identity matter.          *)
(***************************************************************************)
Str(c, n) == <<[c |-> c, n |-> n]>>

\* Bytes encoding/json writes for one character inside a JSON string:
\* '"' and '\' become a two-byte escape, '<', '>'  and '&' become \u00XX.
EscWidth(c) ==
    CASE c = "\"" -> 2
      [] c = "\\" -> 2
      [] c = "<" -> 6
      [] c = ">" -> 6
      [] c = "&" -> 6
      [] OTHER -> 1

RECURSIVE EscLen(_)
EscLen(s) == IF s = <<>> THEN 0
             ELSE s[1].n * EscWidth(s[1].c) + EscLen(Tail(s))

\* A quoted JSON string.
JSONStringLen(s) == 2 + EscLen(s)

(***************************************************************************)
(* Records.                                                                *)
(***************************************************************************)
EmailRecord(id, email, result) == [ID |-> id, Email |-> email, Result |-> result]
TrainingEmailRecord(r) == [ID |-> r.ID, Email |-> r.Email]
TrainingResultRecord(r) == [ID |-> r.ID, Result |-> r.Result]

Nil == [kind |-> "nil"]

(***************************************************************************)
(* json.MarshalIndent(v, "", "  ") of a slice of structs.  The output is   *)
(* a sequence of lines joined by "\n" (no trailing newline):               *)
(*     [                                                                   *)
(*       {                                                                 *)
(*         "id": "1",                                                      *)
(*         "email": "a@x",                                                 *)
(*         "phish": true                                                   *)
(*       },                                                                *)
(*       ...                                                               *)
(*     ]                                                                   *)
(* A nil slice gives null and an empty non-nil slice gives [].             *)
(***************************************************************************)
Line(k, s, b, comma) == [k |-> k, s |-> s, b |-> b, comma |-> comma]

\* The struct's exported fields in declaration order, under their json tags.
FieldNames(r) ==
    (IF "ID" \in DOMAIN r THEN <<"id">> ELSE <<>>) \o
    (IF "Email" \in DOMAIN r THEN <<"email">> ELSE <<>>) \o
    (IF "Result" \in DOMAIN r THEN <<"phish">> ELSE <<>>)

FieldLine(r, name, comma) ==
    CASE name = "id" -> Line("id", r.ID, FALSE, comma)
      [] name = "email" -> Line("email", r.Email, FALSE, comma)
      [] name = "phish" -> Line("phish", <<>>, r.Result, comma)

ObjLines(r, last) ==
    LET names == FieldNames(r)
    IN  <<Line("objopen", <<>>, FALSE, FALSE)>> \o
        [k \in 1..Len(names) |-> FieldLine(r, names[k], k < Len(names))] \o
        <<Line("objclose", <<>>, FALSE, ~last)>>

RECURSIVE ElemLines(_, _)
ElemLines(v, k) ==
    IF k > Len(v) THEN <<>>
    ELSE ObjLines(v[k], k = Len(v)) \o ElemLines(v, k + 1)

MarshalIndent(v, isNil) ==
    IF isNil THEN <<Line("null", <<>>, FALSE, FALSE)>>
    ELSE IF Len(v) = 0 THEN <<Line("empty", <<>>, FALSE, FALSE)>>
    ELSE <<Line("open", <<>>, FALSE, FALSE)>> \o ElemLines(v, 1) \o
         <<Line("close", <<>>, FALSE, FALSE)>>

\* Bytes of one line, without its newline.
LineBytes(l) ==
    LET c == IF l.comma THEN 1 ELSE 0
    IN  CASE l.k = "null" -> 4
          [] l.k = "empty" -> 2
          [] l.k = "open" -> 1
          [] l.k = "close" -> 1
          [] l.k = "objopen" -> 3
          [] l.k = "objclose" -> 3 + c
          [] l.k = "id" -> 4 + 4 + 2 + JSONStringLen(l.s) + c
          [] l.k = "email" -> 4 + 7 + 2 + JSONStringLen(l.s) + c
          [] l.k = "phish" -> 4 + 7 + 2 + (IF l.b THEN 4 ELSE 5) + c

RECURSIVE SumLineBytes(_)
SumLineBytes(data) ==
    IF data = <<>> THEN 0 ELSE LineBytes(data[1]) + SumLineBytes(Tail(data))

\* len(chunkData)
ByteLen(data) == IF data = <<>> THEN 0 ELSE SumLineBytes(data) + (Len(data) - 1)

\* Reading a file back as a JSON array of objects (json.Unmarshal): the
\* sequence of objects, each a record of the fields its lines carry.
RECURSIVE ParseLines(_, _, _)
ParseLines(data, cur, acc) ==
    IF data = <<>> THEN acc
    ELSE LET l == data[1]
             rest == Tail(data)
         IN  CASE l.k = "objopen" -> ParseLines(rest, <<>>, acc)
               [] l.k = "id" -> ParseLines(rest, cur \o <<<<"ID", l.s, FALSE>>>>, acc)
               [] l.k = "email" -> ParseLines(rest, cur \o <<<<"Email", l.s, FALSE>>>>, acc)
               [] l.k = "phish" -> ParseLines(rest, cur \o <<<<"Result", <<>>, l.b>>>>, acc)
               [] l.k = "objclose" ->
                     ParseLines(rest, <<>>,
                        Append(acc,
                           [f \in {cur[k][1] : k \in 1..Len(cur)} |->
                              LET k == CHOOSE k \in 1..Len(cur) : cur[k][1] = f
                              IN  IF f = "Result" THEN cur[k][3] ELSE cur[k][2]]))
               [] OTHER -> ParseLines(rest, cur, acc)

Unmarshal(data) == ParseLines(data, <<>>, <<>>)

(***************************************************************************)
(* Errors.  fmt.Errorf builds a message; the message is kept as the        *)
(* sequence of its pieces so that a file name inside it can be found.      *)
(***************************************************************************)
Error(msg) == [kind |-> "error", msg |-> msg]

\* os.WriteFile fails with a *PathError: "<op> <path>: <errno>".
PathError(op, path) == Error(<<op, " ">> \o path \o <<": ", "errno">>)

\* the message of e mentions the file name
Mentions(e, name) ==
    \E k \in 1..Len(e.msg) :
        k + Len(name) - 1 <= Len(e.msg) /\ SubSeq(e.msg, k, k + Len(name) - 1) = name

(***************************************************************************)
(* WriteJSON (os.WriteFile).  The write succeeds, or it fails at open (the *)
(* file is left as it was) or while writing (the file exists, truncated).  *)
(***************************************************************************)
FsPut(f, name, data) == [n \in DOMAIN f \cup {name} |-> IF n = name THEN data ELSE f[n]]

WriteFileOutcomes(f, name, data) ==
    { [err |-> Nil, fs |-> FsPut(f, name, data)],
      [err |-> PathError("open", name), fs |-> f],
      [err |-> PathError("write", name), fs |-> FsPut(f, name, <<>>)] }

WriteJSONErr(e) == Error(<<"unable to write json to file: ">> \o e.msg)

(***************************************************************************)
(* SplitAndWriteJSON(fileNamePrefix, records, maxSizeKB)                   *)
(***************************************************************************)
bytesPerKB == 1024

MaxSize(maxKB) == maxKB * bytesPerKB

\* fmt.Sprintf("%s_%d.json", fileNamePrefix, chunkNum)
ChunkName(fileNamePrefix, n) == <<fileNamePrefix, "_", ToString(n), ".json">>

\* records[a:b]
Slice(recs, a, b) == SubSeq(recs, a + 1, b)

\* the size is compared with the kilobyte count, not with the byte count
TooBig_Unscaled(data, maxKB) == ByteLen(data) > maxKB

\* line 114: the candidate does not fit
TooBig(data, maxKB) == ByteLen(data) > MaxSize(maxKB)

\* the escape for a record that does not fit is missing
FinalEnd_NoEscape(start, end) == end

\* lines 121-123: a chunk holds at least one record
FinalEnd(start, end) == IF start = end THEN end + 1 ELSE end

\* a chunk number is skipped
NextChunkNum_Skip(n) == n + 2

\* line 135
NextChunkNum(n) == n + 1

\* the record after the chunk is skipped
NextStart_Skip(end) == end + 1

\* line 136
NextStart(end) == end

SWJ_unch == <<csvFile, records, trainCount, testCount, maxSizeKB, randomIndices, i,
              trainSet, testSet, learnSet, picked, subsetsMade>>

\* lines 97-101
SWJ_Enter ==
    /\ pc = "swj_call"
    /\ chunkNum' = 1
    /\ startIdx' = 0
    /\ pc' = "swj_outer"
    /\ UNCHANGED <<SWJ_unch, err, fs, writeLog, endIdx, chunkData>>

\* lines 103-106: the outer loop is entered
SWJ_Outer(recs) ==
    /\ pc = "swj_outer"
    /\ startIdx < Len(recs)
    /\ endIdx' = startIdx
    /\ chunkData' = <<>>
    /\ pc' = "swj_inner"
    /\ UNCHANGED <<SWJ_unch, err, fs, writeLog, chunkNum, startIdx>>

\* lines 103, 139: the outer loop is over
SWJ_Return(recs) ==
    /\ pc = "swj_outer"
    /\ ~(startIdx < Len(recs))
    /\ err' = Nil
    /\ pc' = "swj_ret"
    /\ UNCHANGED <<SWJ_unch, fs, writeLog, chunkNum, startIdx, endIdx, chunkData>>

\* lines 109-117: one more record fits
SWJ_InnerGrow(recs, maxKB) ==
    /\ pc = "swj_inner"
    /\ endIdx < Len(recs)
    /\ chunkData' = MarshalIndent(Slice(recs, startIdx, endIdx + 1), FALSE)
    /\ ~TooBig(chunkData', maxKB)
    /\ endIdx' = endIdx + 1
    /\ UNCHANGED <<SWJ_unch, pc, err, fs, writeLog, chunkNum, startIdx>>

\* the index is advanced before the size is compared: the record that does
\* not fit is kept in the chunk
SWJ_InnerBreak_Inclusive(recs, maxKB) ==
    /\ pc = "swj_inner"
    /\ endIdx < Len(recs)
    /\ chunkData' = MarshalIndent(Slice(recs, startIdx, endIdx + 1), FALSE)
    /\ TooBig(chunkData', maxKB)
    /\ endIdx' = endIdx + 1
    /\ pc' = "swj_final"
    /\ UNCHANGED <<SWJ_unch, err, fs, writeLog, chunkNum, startIdx>>

\* lines 109-116: the next record does not fit
SWJ_InnerBreak(recs, maxKB) ==
    /\ pc = "swj_inner"
    /\ endIdx < Len(recs)
    /\ chunkData' = MarshalIndent(Slice(recs, startIdx, endIdx + 1), FALSE)
    /\ TooBig(chunkData', maxKB)
    /\ pc' = "swj_final"
    /\ UNCHANGED <<SWJ_unch, err, fs, writeLog, chunkNum, startIdx, endIdx>>

\* line 109: no record is left
SWJ_InnerEnd(recs) ==
    /\ pc = "swj_inner"
    /\ ~(endIdx < Len(recs))
    /\ pc' = "swj_final"
    /\ UNCHANGED <<SWJ_unch, err, fs, writeLog, chunkNum, startIdx, endIdx, chunkData>>

\* lines 121-136: the chunk is serialised and written
SWJ_Write(fileNamePrefix, recs) ==
    /\ pc = "swj_final"
    /\ endIdx' = FinalEnd(startIdx, endIdx)
    /\ chunkData' = MarshalIndent(Slice(recs, startIdx, endIdx'), FALSE)
    /\ LET chunkName == ChunkName(fileNamePrefix, chunkNum)
       IN  \E o \in WriteFileOutcomes(fs, chunkName, chunkData') :
              /\ fs' = o.fs
              /\ IF o.err = Nil
                 THEN /\ writeLog' = Append(writeLog, chunkName)
                      /\ chunkNum' = NextChunkNum(chunkNum)
                      /\ startIdx' = NextStart(endIdx')
                      /\ pc' = "swj_outer"
                      /\ UNCHANGED err
                 ELSE /\ err' = Error(<<"unable to write json chunk ">> \o chunkName
                                        \o <<": ">> \o WriteJSONErr(o.err).msg)
                      /\ pc' = "swj_ret"
                      /\ UNCHANGED <<writeLog, chunkNum, startIdx>>
    /\ UNCHANGED SWJ_unch

(***************************************************************************)
(* SplitAndWriteJSON on its own: every input sequence over a few records   *)
(* of different serialised sizes, and every maximum from -1 (negative: no  *)
(* record fits) up.                                                        *)
(***************************************************************************)
\* 457 bytes as an array element: 50 escaped '<' (6 bytes each) and 100 plain bytes
RecA == EmailRecord(Str("1", 1), Str("<", 50) \o Str("a", 100), TRUE)
\* 68 bytes
RecB == EmailRecord(Str("2", 1), Str("b", 10), FALSE)
\* 1158 bytes: alone it is larger than one kilobyte
RecC == EmailRecord(Str("3", 1), Str("c", 1100), FALSE)

Samples == {RecA, RecB, RecC}

SeqsUpTo(S, n) == UNION {[1..k -> S] : k \in 0..n}

learnJSONFilePrefix == "Phishing_Learning_Data"

InitLocals ==
    /\ randomIndices = <<>>
    /\ i = 0
    /\ trainSet = <<>> /\ testSet = <<>> /\ learnSet = <<>>
    /\ picked = [train |-> <<>>, test |-> <<>>, learn |-> <<>>]
    /\ subsetsMade = FALSE
    /\ err = Nil
    /\ fs = <<>>
    /\ writeLog = <<>>
    /\ chunkNum = 0 /\ startIdx = 0 /\ endIdx = 0 /\ chunkData = <<>>

InitChunk ==
    /\ pc = "swj_call"
    /\ csvFile = [exists |-> FALSE, rows |-> <<>>]
    /\ records \in SeqsUpTo(Samples, MaxChunkRecords)
    /\ trainCount = 0 /\ testCount = 0
    /\ maxSizeKB \in (0 - 1)..MaxSizeKBBound
    /\ InitLocals

NextChunk ==
    \/ SWJ_Enter
    \/ SWJ_Outer(records)
    \/ SWJ_Return(records)
    \/ SWJ_InnerGrow(records, maxSizeKB)
    \/ SWJ_InnerBreak(records, maxSizeKB)
    \/ SWJ_InnerEnd(records)
    \/ SWJ_Write(learnJSONFilePrefix, records)

SpecChunk == InitChunk /\ [][NextChunk]_vars

\* the calls return: nothing in the program's scheduling stops a running loop
FairChunk == SpecChunk /\ WF_vars(NextChunk)

(***************************************************************************)
(* Properties of SplitAndWriteJSON (checked under SpecChunk / FairChunk).  *)
(***************************************************************************)
IsChunkName(name) == Len(name) = 4 /\ name[1] = learnJSONFilePrefix

\* the chunk files written so far, in the order written
ChunkLog == SelectSeq(writeLog, IsChunkName)

ChunkRecords(name) == Unmarshal(fs[name])

Written(name) == \E k \in 1..Len(writeLog) : writeLog[k] = name

\* the record sequences of the chunk files numbered n..last, concatenated
RECURSIVE ConcatChunks(_, _)
ConcatChunks(n, last) ==
    IF n > last THEN <<>>
    ELSE (IF Written(ChunkName(learnJSONFilePrefix, n))
          THEN ChunkRecords(ChunkName(learnJSONFilePrefix, n)) ELSE <<>>)
         \o ConcatChunks(n + 1, last)

SWJ_Done == pc = "swj_ret" /\ err = Nil

ArrayBytes(recs) == ByteLen(MarshalIndent(recs, FALSE))

\* C3: when SplitAndWriteJSON completes without error, the record sequences of
\* the chunk files it wrote, concatenated in chunk-number order, are exactly
\* the input sequence (nothing omitted, nothing duplicated, original order).
C3_Concatenation ==
    SWJ_Done => ConcatChunks(1, 2 * Len(records) + 2) = records

\* a completed run that wrote a chunk of several records and an oversized
\* record alone
C3_Witness ==
    /\ SWJ_Done
    /\ Len(ChunkLog) >= 2
    /\ \E k \in 1..Len(ChunkLog) : Len(ChunkRecords(ChunkLog[k])) >= 2
    /\ \E k \in 1..Len(ChunkLog) :
          /\ Len(ChunkRecords(ChunkLog[k])) = 1
          /\ ByteLen(fs[ChunkLog[k]]) > maxSizeKB * bytesPerKB

\* C4: every chunk file written is at most maxSizeKB * 1024 bytes long, except
\* a chunk of exactly one record whose own serialised array is longer than
\* that; a chunk of two or more records is never longer.
C4_SizeBound ==
    \A k \in 1..Len(ChunkLog) :
        LET data == fs[ChunkLog[k]]
            recs == ChunkRecords(ChunkLog[k])
        IN  \/ ByteLen(data) <= maxSizeKB * bytesPerKB
            \/ /\ Len(recs) = 1
               /\ ArrayBytes(<<recs[1]>>) > maxSizeKB * bytesPerKB

\* one state holds a full chunk of several records and an oversized chunk
C4_Witness ==
    /\ \E k \in 1..Len(ChunkLog) :
          /\ Len(ChunkRecords(ChunkLog[k])) >= 2
          /\ ByteLen(fs[ChunkLog[k]]) <= maxSizeKB * bytesPerKB
    /\ \E k \in 1..Len(ChunkLog) : ByteLen(fs[ChunkLog[k]]) > maxSizeKB * bytesPerKB

\* C7: the k-th chunk file written is <prefix>_k.json (numbers 1, 2, ... with
\* no gap and none used twice), and each holds at least one record.
C7_Numbering ==
    \A k \in 1..Len(ChunkLog) :
        /\ ChunkLog[k] = <<learnJSONFilePrefix, "_", ToString(k), ".json">>
        /\ Len(ChunkRecords(ChunkLog[k])) >= 1

C7_Witness == SWJ_Done /\ Len(ChunkLog) >= 3

\* the number of records in each chunk written, in the order written
ChunkCounts == [k \in 1..Len(ChunkLog) |-> Len(ChunkRecords(ChunkLog[k]))]

\* five records of one size, of which exactly two fit in a chunk
TwoOfFiveFit ==
    /\ Len(records) = 5
    /\ \A k \in 1..5 : ArrayBytes(<<records[k]>>) = ArrayBytes(<<records[1]>>)
    /\ ArrayBytes(SubSeq(records, 1, 2)) <= maxSizeKB * bytesPerKB
    /\ ArrayBytes(SubSeq(records, 1, 3)) > maxSizeKB * bytesPerKB

\* C8: chunks are greedy-maximal: every chunk but the last, extended by the
\* first record of the next chunk, is longer than maxSizeKB * 1024 bytes; so
\* five equal records of which two fit give chunks of 2, 2 and 1 records.
C8_Greedy ==
    /\ \A k \in 1..(Len(ChunkLog) - 1) :
          ArrayBytes(Append(ChunkRecords(ChunkLog[k]), ChunkRecords(ChunkLog[k + 1])[1]))
             > maxSizeKB * bytesPerKB
    /\ (SWJ_Done /\ TwoOfFiveFit) => ChunkCounts = <<2, 2, 1>>

C8_Witness == SWJ_Done /\ TwoOfFiveFit /\ Len(ChunkLog) = 3

\* C10: SplitAndWriteJSON terminates: every pass of the outer loop moves the
\* start position forward by at least one record (or ends with the first
\* error), at most len(records) chunk files are written, and the call returns,
\* with all records written when it returns no error.
C10_Terminates ==
    /\ [][pc = "swj_final" => (startIdx' > startIdx \/ (pc' = "swj_ret" /\ err' # Nil))]_vars
    /\ [](Len(ChunkLog) <= Len(records))
    /\ [](SWJ_Done => startIdx = Len(records))
    /\ <>(pc = "swj_ret")

\* a completed run with a maximum smaller than any single record
C10_Witness == SWJ_Done /\ maxSizeKB = 0 /\ Len(ChunkLog) >= 2

(***************************************************************************)
(* SplitData(records, trainCount, testCount)                               *)
(***************************************************************************)
\* prng.Perm(n): the permutations of 0..n-1
Perm(n) == {p \in [1..n -> 0..(n - 1)] : \A a, b \in 1..n : a # b => p[a] # p[b]}

\* the equality case is let through
Insufficient_Strict(tc, tec, totalCount) == tc + tec > totalCount

\* line 147
Insufficient(tc, tec, totalCount) == tc + tec >= totalCount

\* line 153
TrainIndices(perm, tc) == Slice(perm, 0, tc)

\* the testing indices are taken from the start of the permutation too
TestIndices_FromStart(perm, tc, tec) == Slice(perm, 0, tec)

\* line 154
TestIndices(perm, tc, tec) == Slice(perm, tc, tc + tec)

\* lines 174-182
contains(slice, x) == \E k \in 1..Len(slice) : slice[k] = x

\* the loop walks the permutation instead of the records
LoopIndex_Perm(perm, step) == perm[step + 1]

\* line 160: the range loop visits the records in order, i = 0, 1, ...
LoopIndex(perm, step) == step

SD_unch == <<csvFile, records, trainCount, testCount, maxSizeKB, fs, writeLog,
             chunkNum, startIdx, endIdx, chunkData>>

\* lines 146-149
SD_Insufficient(recs, tc, tec) ==
    /\ pc = "sd_call"
    /\ Insufficient(tc, tec, Len(recs))
    /\ err' = Error(<<"training count (", ToString(tc), ") and ttesting count (",
                      ToString(tec), ") is greater than or equal to the total records (",
                      ToString(Len(recs)), ")">>)
    /\ trainSet' = <<>> /\ testSet' = <<>> /\ learnSet' = <<>>
    /\ subsetsMade' = FALSE
    /\ pc' = "sd_ret"
    /\ UNCHANGED <<SD_unch, randomIndices, i, picked>>

\* lines 151-158
SD_Perm(recs, tc, tec) ==
    /\ pc = "sd_call"
    /\ ~Insufficient(tc, tec, Len(recs))
    /\ randomIndices' \in Perm(Len(recs))
    /\ trainSet' = <<>> /\ testSet' = <<>> /\ learnSet' = <<>>
    /\ subsetsMade' = TRUE
    /\ picked' = [train |-> <<>>, test |-> <<>>, learn |-> <<>>]
    /\ i' = 0
    /\ pc' = "sd_loop"
    /\ UNCHANGED <<SD_unch, err>>

\* lines 160-162
SD_LoopTrain(recs, tc, tec) ==
    /\ pc = "sd_loop"
    /\ i < Len(recs)
    /\ LET idx == LoopIndex(randomIndices, i)
       IN  /\ contains(TrainIndices(randomIndices, tc), idx)
           /\ trainSet' = Append(trainSet, recs[idx + 1])
           /\ picked' = [picked EXCEPT !.train = Append(@, idx)]
    /\ i' = i + 1
    /\ UNCHANGED <<SD_unch, pc, randomIndices, testSet, learnSet, subsetsMade, err>>

\* lines 160-164
SD_LoopTest(recs, tc, tec) ==
    /\ pc = "sd_loop"
    /\ i < Len(recs)
    /\ LET idx == LoopIndex(randomIndices, i)
       IN  /\ ~contains(TrainIndices(randomIndices, tc), idx)
           /\ contains(TestIndices(randomIndices, tc, tec), idx)
           /\ testSet' = Append(testSet, recs[idx + 1])
           /\ picked' = [picked EXCEPT !.test = Append(@, idx)]
    /\ i' = i + 1
    /\ UNCHANGED <<SD_unch, pc, randomIndices, trainSet, learnSet, subsetsMade, err>>

\* lines 160-167
SD_LoopLearn(recs, tc, tec) ==
    /\ pc = "sd_loop"
    /\ i < Len(recs)
    /\ LET idx == LoopIndex(randomIndices, i)
       IN  /\ ~contains(TrainIndices(randomIndices, tc), idx)
           /\ ~contains(TestIndices(randomIndices, tc, tec), idx)
           /\ learnSet' = Append(learnSet, recs[idx + 1])
           /\ picked' = [picked EXCEPT !.learn = Append(@, idx)]
    /\ i' = i + 1
    /\ UNCHANGED <<SD_unch, pc, randomIndices, trainSet, testSet, subsetsMade, err>>

\* line 170
SD_Return(recs) ==
    /\ pc = "sd_loop"
    /\ ~(i < Len(recs))
    /\ err' = Nil
    /\ pc' = "sd_ret"
    /\ UNCHANGED <<SD_unch, randomIndices, i, trainSet, testSet, learnSet, picked,
                   subsetsMade>>

(***************************************************************************)
(* SplitData on its own: every dataset (repeated records included), every  *)
(* pair of counts, every permutation.                                      *)
(***************************************************************************)
InitSplit ==
    /\ pc = "sd_call"
    /\ csvFile = [exists |-> FALSE, rows |-> <<>>]
    /\ records \in SeqsUpTo({RecA, RecB}, MaxSplitRecords)
    /\ trainCount \in 0..MaxSplitCount
    /\ testCount \in 0..MaxSplitCount
    /\ maxSizeKB = 0
    /\ InitLocals

NextSplit ==
    \/ SD_Insufficient(records, trainCount, testCount)
    \/ SD_Perm(records, trainCount, testCount)
    \/ SD_LoopTrain(records, trainCount, testCount)
    \/ SD_LoopTest(records, trainCount, testCount)
    \/ SD_LoopLearn(records, trainCount, testCount)
    \/ SD_Return(records)

SpecSplit == InitSplit /\ [][NextSplit]_vars

(***************************************************************************)
(* Properties of SplitData (checked under SpecSplit).                      *)
(***************************************************************************)
Range(seq) == {seq[k] : k \in 1..Len(seq)}

NoRepeat(seq) == Cardinality(Range(seq)) = Len(seq)

Increasing(seq) == \A k \in 1..(Len(seq) - 1) : seq[k] < seq[k + 1]

\* the subset holds the records of the dataset at the picked indices
RecordsAt(subset, idxs) ==
    /\ Len(subset) = Len(idxs)
    /\ \A k \in 1..Len(idxs) : subset[k] = records[idxs[k] + 1]

SD_Returned == pc = "sd_ret"

\* C1: with trainCount + testCount < N, SplitData succeeds and the three
\* subsets, as sets of record indices, are pairwise disjoint, cover 0..N-1,
\* and training has trainCount members, testing testCount members.
C1_Partition ==
    (SD_Returned /\ trainCount + testCount < Len(records)) =>
        /\ err = Nil
        /\ RecordsAt(trainSet, picked.train)
        /\ RecordsAt(testSet, picked.test)
        /\ RecordsAt(learnSet, picked.learn)
        /\ NoRepeat(picked.train) /\ NoRepeat(picked.test) /\ NoRepeat(picked.learn)
        /\ Range(picked.train) \cap Range(picked.test) = {}
        /\ Range(picked.train) \cap Range(picked.learn) = {}
        /\ Range(picked.test) \cap Range(picked.learn) = {}
        /\ Range(picked.train) \cup Range(picked.test) \cup Range(picked.learn)
              = 0..(Len(records) - 1)
        /\ Len(trainSet) = trainCount
        /\ Len(testSet) = testCount
        /\ Len(learnSet) = Len(records) - trainCount - testCount

\* a split with all three subsets non-empty and training of two records
C1_Witness ==
    /\ SD_Returned /\ err = Nil
    /\ Len(trainSet) = 2 /\ Len(testSet) >= 1 /\ Len(learnSet) >= 1

\* C2: SplitData returns an error, and no subsets, exactly when
\* trainCount + testCount >= N; with trainCount + testCount = N - 1 it
\* succeeds and the learning subset has exactly one record.
C2_Insufficient ==
    SD_Returned =>
        /\ (err # Nil) <=> (trainCount + testCount >= Len(records))
        /\ (err # Nil) =>
              (~subsetsMade /\ trainSet = <<>> /\ testSet = <<>> /\ learnSet = <<>>)
        /\ (trainCount + testCount = Len(records) - 1) =>
              (err = Nil /\ subsetsMade /\ Len(learnSet) = 1)

\* the error in the equality case
C2_Witness ==
    /\ SD_Returned /\ err # Nil
    /\ Len(records) >= 2 /\ trainCount + testCount = Len(records)

\* C6: in each subset the records are in their original order (strictly
\* increasing original index), whatever the order of the permutation.
C6_OriginalOrder ==
    /\ Increasing(picked.train) /\ RecordsAt(trainSet, picked.train)
    /\ Increasing(picked.test) /\ RecordsAt(testSet, picked.test)
    /\ Increasing(picked.learn) /\ RecordsAt(learnSet, picked.learn)

\* the permutation lists the training indices in decreasing order
C6_Witness ==
    /\ SD_Returned /\ err = Nil
    /\ trainCount = 2 /\ testCount = 1
    /\ randomIndices[1] > randomIndices[2]
    /\ Len(trainSet) = 2 /\ Len(testSet) = 1 /\ Len(learnSet) = 1

(***************************************************************************)
(* ReadCSV(filename)                                                       *)
(***************************************************************************)
\* a string given by its characters
Text(chars) == [k \in 1..Len(chars) |-> [c |-> chars[k], n |-> 1]]

PhishingEmail == Text(<<"P", "h", "i", "s", "h", "i", "n", "g", " ", "E", "m", "a", "i", "l">>)
SafeEmail == Text(<<"S", "a", "f", "e", " ", "E", "m", "a", "i", "l">>)

\* encoding/csv: the sentinel error value, and the *ParseError the reader
\* returns for a record whose field count differs from the first record's
ErrFieldCount == [kind |-> "errorString", msg |-> <<"wrong number of fields">>]
EOF == [kind |-> "errorString", msg |-> <<"EOF">>]
ParseError(line, e) ==
    [kind |-> "ParseError", msg |-> <<"record on line ", ToString(line), ": ">> \o e.msg]

\* csvReader.Read() at position pos (rows already consumed), with
\* FieldsPerRecord = fpr (0 before the first record, which sets it)
Read(rows, pos, fpr) ==
    IF pos >= Len(rows) THEN [record |-> <<>>, err |-> EOF]
    ELSE IF fpr > 0 /\ Len(rows[pos + 1]) # fpr
         THEN [record |-> rows[pos + 1], err |-> ParseError(pos + 1, ErrFieldCount)]
         ELSE [record |-> rows[pos + 1], err |-> Nil]

\* the comparison unwraps the *ParseError (errors.Is)
IsFieldCountError_Unwrapped(e) == e.kind = "ParseError" \/ e = ErrFieldCount

\* line 59: recordReadErr == csv.ErrFieldCount compares the error values
IsFieldCountError(e) == e = ErrFieldCount

\* lines 56-74: the read loop, from position pos with acc read so far
RECURSIVE ReadLoop(_, _, _, _)
ReadLoop(rows, pos, fpr, acc) ==
    LET r == Read(rows, pos, fpr)
    IN  IF r.err # Nil
        THEN IF IsFieldCountError(r.err)
             THEN [records |-> <<>>, panic |-> FALSE,
                   err |-> Error(<<"error reading csv record: ">> \o r.err.msg)]
             ELSE [records |-> acc, panic |-> FALSE, err |-> Nil]
        ELSE IF Len(r.record) < 3
             THEN [records |-> <<>>, panic |-> TRUE, err |-> Nil]
             ELSE ReadLoop(rows, pos + 1, fpr,
                     Append(acc, EmailRecord(r.record[1], r.record[2],
                                             r.record[3] = PhishingEmail)))

\* lines 42-75
ReadCSV(file) ==
    IF ~file.exists
    THEN [records |-> <<>>, panic |-> FALSE,
          err |-> Error(<<"unable to open csv file for reading: ">>
                          \o PathError("open", <<"Phishing_Email.csv">>).msg)]
    ELSE LET h == Read(file.rows, 0, 0)
         IN  IF h.err # Nil
             THEN [records |-> <<>>, panic |-> FALSE,
                   err |-> Error(<<"unable to read csv header: ">> \o h.err.msg)]
             ELSE ReadLoop(file.rows, 1, Len(h.record), <<>>)

(***************************************************************************)
(* main                                                                    *)
(***************************************************************************)
trainEmailJSONFileName == <<"Phishing_Training_Data.json">>
trainResultJSONFileName == <<"Phishing_Training_Result.json">>
testJSONFileName == <<"Phishing_Testing_Data.json">>

\* log.Fatalf(what + ": %v", e)
Fatalf(what, e) == Error(<<what>> \o e.msg)

\* lines 206-210 and 219: trainEmailSet stays nil when trainSet is empty
trainEmailJsonData == MarshalIndent([k \in 1..Len(trainSet) |-> TrainingEmailRecord(trainSet[k])],
                  trainSet = <<>>)
\* lines 212-216 and 224
trainResultJsonData == MarshalIndent([k \in 1..Len(trainSet) |-> TrainingResultRecord(trainSet[k])],
                  trainSet = <<>>)
\* line 239: testSet was made by SplitData, it is never nil
testJSONData == MarshalIndent(testSet, FALSE)

M_unch == <<csvFile, trainCount, testCount, maxSizeKB, randomIndices, i,
            trainSet, testSet, learnSet, picked, subsetsMade,
            chunkNum, startIdx, endIdx, chunkData>>

\* lines 195-198, ReadCSV returned records
M_ReadCSV ==
    /\ pc = "main"
    /\ LET r == ReadCSV(csvFile)
       IN  /\ ~r.panic /\ r.err = Nil
           /\ records' = r.records
    /\ pc' = "sd_call"
    /\ UNCHANGED <<M_unch, err, fs, writeLog>>

\* lines 195-198, ReadCSV returned an error
M_ReadCSVFatal ==
    /\ pc = "main"
    /\ LET r == ReadCSV(csvFile)
       IN  /\ ~r.panic /\ r.err # Nil
           /\ err' = Fatalf("Error reading csv file: ", r.err)
    /\ pc' = "fatal"
    /\ UNCHANGED <<M_unch, records, fs, writeLog>>

\* lines 66-68: record[2] of a record of fewer than three fields
M_ReadCSVPanic ==
    /\ pc = "main"
    /\ ReadCSV(csvFile).panic
    /\ pc' = "panic"
    /\ UNCHANGED <<M_unch, records, err, fs, writeLog>>

\* lines 202-204
M_SplitFatal ==
    /\ pc = "sd_ret"
    /\ err # Nil
    /\ err' = Fatalf("Error splitting data into learning and training sets: ", err)
    /\ pc' = "fatal"
    /\ UNCHANGED <<M_unch, records, fs, writeLog>>

\* the error of the write is not looked at
MainWrite_IgnoreError(at, name, data, next, what) ==
    /\ pc = at
    /\ err = Nil
    /\ \E o \in WriteFileOutcomes(fs, name, data) :
          /\ fs' = o.fs
          /\ writeLog' = IF o.err = Nil THEN Append(writeLog, name) ELSE writeLog
          /\ pc' = next
          /\ UNCHANGED err
    /\ UNCHANGED <<M_unch, records>>

\* if err := WriteJSON(name, data); err != nil { log.Fatalf(what, err) }
MainWrite(at, name, data, next, what) ==
    /\ pc = at
    /\ err = Nil
    /\ \E o \in WriteFileOutcomes(fs, name, data) :
          /\ fs' = o.fs
          /\ IF o.err = Nil
             THEN /\ writeLog' = Append(writeLog, name)
                  /\ pc' = next
                  /\ UNCHANGED err
             ELSE /\ err' = Fatalf(what, WriteJSONErr(o.err))
                  /\ pc' = "fatal"
                  /\ UNCHANGED writeLog
    /\ UNCHANGED <<M_unch, records>>

\* lines 206-232
M_WriteTrainEmail ==
    MainWrite("sd_ret", trainEmailJSONFileName, trainEmailJsonData, "main_trainResult",
              "Error writing training email JSON file: ")

\* lines 234-236
M_WriteTrainResult ==
    MainWrite("main_trainResult", trainResultJSONFileName, trainResultJsonData,
              "main_test", "Error writing training result JSON file: ")

\* lines 238-247
M_WriteTest ==
    MainWrite("main_test", testJSONFileName, testJSONData, "swj_call",
              "Error writing testing JSON file: ")

\* lines 250-252
M_LearnFatal ==
    /\ pc = "swj_ret"
    /\ err # Nil
    /\ err' = Fatalf("Error writing learning JSON file: ", err)
    /\ pc' = "fatal"
    /\ UNCHANGED <<M_unch, records, fs, writeLog>>

\* line 254
M_Done ==
    /\ pc = "swj_ret"
    /\ err = Nil
    /\ pc' = "done"
    /\ UNCHANGED <<M_unch, records, err, fs, writeLog>>

(***************************************************************************)
(* The whole program.  main fixes trainCount = 30, testCount = 20 and      *)
(* maxFileSizeKB = 5000; the model runs it for every small configuration   *)
(* and every small input file, so that each stage is reached with few rows.*)
(***************************************************************************)
RowA == <<RecA.ID, RecA.Email, PhishingEmail>>
RowB == <<RecB.ID, RecB.Email, SafeEmail>>
\* a row of two columns
RowShort == <<RecB.ID, RecB.Email>>

Header3 == <<Text(<<"i", "d">>), Text(<<"e", "m", "a", "i", "l">>), Text(<<"t", "y", "p", "e">>)>>
Header2 == <<Text(<<"i", "d">>), Text(<<"e", "m", "a", "i", "l">>)>>

InputFiles ==
    {[exists |-> FALSE, rows |-> <<>>], [exists |-> TRUE, rows |-> <<>>]} \cup
    {[exists |-> TRUE, rows |-> <<h>> \o rows] :
        h \in {Header3, Header2}, rows \in SeqsUpTo({RowA, RowB, RowShort}, MaxRows)}

InitMain ==
    /\ pc = "main"
    /\ csvFile \in InputFiles
    /\ records = <<>>
    /\ trainCount \in 0..MaxMainCount
    /\ testCount \in 0..MaxMainCount
    /\ maxSizeKB \in 0..MaxSizeKBBound
    /\ InitLocals

NextMain ==
    \/ M_ReadCSV
    \/ M_ReadCSVFatal
    \/ M_ReadCSVPanic
    \/ SD_Insufficient(records, trainCount, testCount)
    \/ SD_Perm(records, trainCount, testCount)
    \/ SD_LoopTrain(records, trainCount, testCount)
    \/ SD_LoopTest(records, trainCount, testCount)
    \/ SD_LoopLearn(records, trainCount, testCount)
    \/ SD_Return(records)
    \/ M_SplitFatal
    \/ M_WriteTrainEmail
    \/ M_WriteTrainResult
    \/ M_WriteTest
    \/ SWJ_Enter
    \/ SWJ_Outer(learnSet)
    \/ SWJ_Return(learnSet)
    \/ SWJ_InnerGrow(learnSet, maxSizeKB)
    \/ SWJ_InnerBreak(learnSet, maxSizeKB)
    \/ SWJ_InnerEnd(learnSet)
    \/ SWJ_Write(learnJSONFilePrefix, learnSet)
    \/ M_LearnFatal
    \/ M_Done

SpecMain == InitMain /\ [][NextMain]_vars

(***************************************************************************)
(* Properties of the whole program (checked under SpecMain).               *)
(***************************************************************************)
\* the input has a data row whose number of columns differs from the header's
HasMalformedRow(file) ==
    /\ file.exists
    /\ \E k \in 2..Len(file.rows) : Len(file.rows[k]) # Len(file.rows[1])

\* the input has a three-column header and a data row of another width
HasWrongWidthRow(file) == HasMalformedRow(file) /\ Len(file.rows[1]) = 3

\* C5: when the input has a data row with the wrong number of columns, ReadCSV
\* returns an error (not the rows read so far), the program ends fatally and
\* no output file is written.
C5_MalformedRowIsFatal ==
    (HasWrongWidthRow(csvFile) /\ pc # "main") =>
        (pc = "fatal" /\ records = <<>> /\ writeLog = <<>> /\ DOMAIN fs = {})

\* the k-th file the program writes
ExpectedName(k) ==
    CASE k = 1 -> trainEmailJSONFileName
      [] k = 2 -> trainResultJSONFileName
      [] k = 3 -> testJSONFileName
      [] OTHER -> <<learnJSONFilePrefix, "_", ToString(k - 3), ".json">>

\* the first error has ended the program
Fatal == pc = "fatal"

\* C9: files are written in the order training-email, training-label,
\* testing, learning chunk 1, 2, ...; after the first error nothing more is
\* done; every file written earlier stays as written; and the error reported
\* for a learning chunk names that chunk.
C9_FirstErrorAborts ==
    /\ [](\A k \in 1..Len(writeLog) :
             writeLog[k] = ExpectedName(k) /\ writeLog[k] \in DOMAIN fs)
    /\ [](Fatal => err # Nil)
    /\ []((Fatal /\ Len(writeLog) >= 3) =>
             Mentions(err, <<learnJSONFilePrefix, "_", ToString(Len(writeLog) - 2), ".json">>))
    /\ [][~Fatal]_vars
    /\ [][\A k \in 1..Len(writeLog) :
             /\ k <= Len(writeLog') /\ writeLog'[k] = writeLog[k]
             /\ writeLog[k] \in DOMAIN fs' /\ fs'[writeLog[k]] = fs[writeLog[k]]]_vars

\* the write of the second learning chunk failed
C9_Witness ==
    /\ Fatal
    /\ writeLog = <<trainEmailJSONFileName, trainResultJSONFileName, testJSONFileName,
                    <<learnJSONFilePrefix, "_", "1", ".json">>>>
    /\ Mentions(err, <<learnJSONFilePrefix, "_", "2", ".json">>)

====
